---- MODULE Spec2Model ----
(***************************************************************************)
(* Model of src/main.py: the FastAPI backend with the placeholder image    *)
(* synthesizer (_generate_placeholder_image and its nested wrap_text), the *)
(* POST /api/generate handler (generate_image) and the diagnostics         *)
(* endpoint GET /test (test_database).                                     *)
(*                                                                         *)
(* Text (str) is a sequence of one-character strings.  Optional[int] is a  *)
(* sequence of length at most one: None is << >> and the integer x is      *)
(* << x >>.                                                                *)
(***************************************************************************)
EXTENDS Integers, Sequences, FiniteSets, TLC

VARIABLES
    \* wrap_text, called on its own
    text, max_chars, wrapped, wpc,
    \* the alpha-mask loop of one glow
    radius, r, rings, gpc,
    \* POST /api/generate, one entry per request in flight
    body, req, pc, seed, rnd, glows, img, exc, resp, synth_calls,
    \* GET /test
    probe, response, dpc

wrapVars == <<text, max_chars, wrapped, wpc>>
glowVars == <<radius, r, rings, gpc>>
genVars  == <<body, req, pc, seed, rnd, glows, img, exc, resp, synth_calls>>
diagVars == <<probe, response, dpc>>
vars     == <<wrapVars, glowVars, genVars, diagVars>>

(***************************************************************************)
(* Generic helpers on sequences                                            *)
(***************************************************************************)
None == << >>
Some(x) == << x >>

Min(a, b) == IF a < b THEN a ELSE b
Max(a, b) == IF a > b THEN a ELSE b
Abs(x) == IF x < 0 THEN -x ELSE x

\* s[:n]
Take(s, n) == SubSeq(s, 1, Min(n, Len(s)))

\* c * n
Rep(c, n) == [i \in 1..n |-> c]

IsPrefix(s, t) == Len(s) <= Len(t) /\ SubSeq(t, 1, Len(s)) = s

(***************************************************************************)
(* wrap_text (src/main.py:143-155)                                         *)
(***************************************************************************)
\* the second argument of the only call, wrap_text(prompt, max_chars=32)
MaxChars == 32
\* lines[:6]
MaxLines == 6

\* str.split() separates on whitespace; the model's only whitespace is " "
IsSpace(c) == c = " "

\* the positions where a word of s begins and the position where it ends
WordStarts(s) ==
    { i \in 1..Len(s) : ~IsSpace(s[i]) /\ (i = 1 \/ IsSpace(s[i - 1])) }
WordEnd(s, i) ==
    CHOOSE j \in i..Len(s) :
        /\ \A k \in i..j : ~IsSpace(s[k])
        /\ (j = Len(s) \/ IsSpace(s[j + 1]))

\* text.split(): the maximal runs of non-whitespace characters, in order
Split(s) ==
    LET starts == WordStarts(s)
    IN  [k \in 1..Cardinality(starts) |->
            LET i == CHOOSE x \in starts : Cardinality({y \in starts : y < x}) = k - 1
            IN  SubSeq(s, i, WordEnd(s, i))]

RECURSIVE Join(_)
\* " ".join(line)
Join(line) ==
    IF line = << >> THEN << >>
    ELSE IF Len(line) = 1 THEN line[1]
    ELSE line[1] \o <<" ">> \o Join(Tail(line))

RECURSIVE SumLen(_)
\* sum(len(x) for x in line)
SumLen(line) == IF line = << >> THEN 0 ELSE Len(Head(line)) + SumLen(Tail(line))

\* a variant that forgets the inter-word spaces
OverflowsNoSpaces(line, w, mc) == SumLen(line) + Len(w) > mc

\* sum(len(x) for x in line) + len(line) + len(w) > max_chars
Overflows(line, w, mc) == SumLen(line) + Len(line) + Len(w) > mc

RECURSIVE WrapLoop(_, _, _, _, _)
\* the for loop over words and the trailing "if line:"
WrapLoop(words, i, line, lines, mc) ==
    IF i > Len(words)
    THEN IF line # << >> THEN Append(lines, Join(line)) ELSE lines
    ELSE IF Overflows(line, words[i], mc)
         THEN WrapLoop(words, i + 1, <<words[i]>>, Append(lines, Join(line)), mc)
         ELSE WrapLoop(words, i + 1, Append(line, words[i]), lines, mc)

\* a variant that keeps every line
Untruncated(lines) == lines

\* return lines[:6]
Truncate(lines) == Take(lines, MaxLines)

wrap_text(t, mc) == Truncate(WrapLoop(Split(t), 1, << >>, << >>, mc))

(***************************************************************************)
(* Specification SpecWrap: wrap_text applied to bounded inputs             *)
(***************************************************************************)
\* bound: the number of words of an input text
MaxWords == 7
\* the lengths of the words of an input text
WordLens == {1, 30, 33}

RECURSIVE BuildText(_, _)
\* the text whose words have the lengths lens, separated by gap blanks
BuildText(lens, gap) ==
    IF lens = << >> THEN << >>
    ELSE IF Len(lens) = 1 THEN Rep("a", lens[1])
    ELSE Rep("a", lens[1]) \o Rep(" ", gap) \o BuildText(Tail(lens), gap)

\* texts of up to MaxWords words; odd ones are padded with blanks on both
\* sides and use two blanks between words
Texts ==
    { Rep(" ", gap - 1) \o BuildText(lens, gap) \o Rep(" ", gap - 1) :
        lens \in UNION { [1..n -> WordLens] : n \in 0..MaxWords }, gap \in 1..2 }

WrapIdle ==
    /\ text = << >>
    /\ max_chars = MaxChars
    /\ wrapped = << >>
    /\ wpc = "idle"

InitWrap ==
    /\ text \in Texts
    /\ max_chars = MaxChars
    /\ wrapped = << >>
    /\ wpc = "call"

\* lines = wrap_text(prompt, max_chars=32)
WrapCall ==
    /\ wpc = "call"
    /\ wrapped' = wrap_text(text, max_chars)
    /\ wpc' = "done"
    /\ UNCHANGED <<text, max_chars, glowVars, genVars, diagVars>>

(***************************************************************************)
(* The alpha mask of one glow (src/main.py:120-126)                        *)
(***************************************************************************)
\* Field(768, ge=256, le=1024) of width and height
MinDim == 256
MaxDim == 1024
DefaultDim == 768

\* int(min(width, height) * 0.3); the float product truncates to the same
\* integer as the exact one for every min(width, height) in 256..1024
RadiusLo(w, h) == (Min(w, h) * 3) \div 10
\* int(min(width, height) * 0.6)
RadiusHi(w, h) == (Min(w, h) * 6) \div 10

\* a = int(255 * (r / radius) ** 2)
Alpha(rr, rad) == (255 * rr * rr) \div (rad * rad)

\* a variant that walks the radii one by one
StrideOne(rr) == rr - 1

\* the step of range(radius, 0, -2)
Stride(rr) == rr - 2

GlowIdle ==
    /\ radius = 0
    /\ r = 0
    /\ rings = << >>
    /\ gpc = "idle"

\* radial = Image.new("L", ...); r starts at range(radius, 0, -2)'s first value
InitGlow ==
    /\ \E m \in MinDim..MaxDim : radius \in RadiusLo(m, m)..RadiusHi(m, m)
    /\ r = radius
    /\ rings = << >>
    /\ gpc = "loop"

\* one iteration: radial_draw.ellipse(..., fill=a)
RingStep ==
    /\ gpc = "loop"
    /\ r > 0
    /\ rings' = Append(rings, [r |-> r, a |-> Alpha(r, radius)])
    /\ r' = Stride(r)
    /\ UNCHANGED <<radius, gpc, wrapVars, genVars, diagVars>>

\* range(radius, 0, -2) is exhausted
RingExit ==
    /\ gpc = "loop"
    /\ r <= 0
    /\ gpc' = "done"
    /\ UNCHANGED <<radius, r, rings, wrapVars, genVars, diagVars>>

(***************************************************************************)
(* random.Random(seed) (src/main.py:109-110).  The Mersenne Twister is     *)
(* represented by a small linear congruential stream: what the model keeps *)
(* of it is that the stream is a function of the seed alone, that every    *)
(* draw advances the generator's own state, and that randint(a, b) ranges  *)
(* over a..b with both ends included.                                      *)
(***************************************************************************)
RndModulus == 65536
RndMultiplier == 25173
RndIncrement == 13849

\* A Python int that may exceed 32-bit model integers is kept as
\* sign and two base-65536 digits: its value is (hi * Limb + lo), negated
\* when neg.
Limb == 65536
PyInt(v) == [neg |-> v < 0, hi |-> Abs(v) \div Limb, lo |-> Abs(v) % Limb]

\* random.Random(seed): an int seed is used by absolute value
SeedState(s) == ((s.hi % RndModulus) * (Limb % RndModulus) + s.lo) % RndModulus

RndAdvance(st) == (RndMultiplier * st + RndIncrement) % RndModulus

\* rnd.randint(a, b): a <= N <= b
RandInt(st, a, b) == a + (st % (b - a + 1))

ColorLo == 80
ColorHi == 180
Blue == 255

\* a variant that draws cx against the height and cy against the width
DrawGlowSwapped(st, w, h) ==
    LET cx == RandInt(st, 0, h)
        s1 == RndAdvance(st)
        cy == RandInt(s1, 0, w)
        s2 == RndAdvance(s1)
        rad == RandInt(s2, RadiusLo(w, h), RadiusHi(w, h))
        s3 == RndAdvance(s2)
        red == RandInt(s3, ColorLo, ColorHi)
        s4 == RndAdvance(s3)
        green == RandInt(s4, ColorLo, ColorHi)
        s5 == RndAdvance(s4)
    IN  [glow |-> [cx |-> cx, cy |-> cy, radius |-> rad,
                   color |-> <<red, green, Blue>>],
         st |-> s5]

\* the five draws of one iteration of "for i in range(3)", in program order
DrawGlowFrom(st, w, h) ==
    LET cx == RandInt(st, 0, w)
        s1 == RndAdvance(st)
        cy == RandInt(s1, 0, h)
        s2 == RndAdvance(s1)
        rad == RandInt(s2, RadiusLo(w, h), RadiusHi(w, h))
        s3 == RndAdvance(s2)
        red == RandInt(s3, ColorLo, ColorHi)
        s4 == RndAdvance(s3)
        green == RandInt(s4, ColorLo, ColorHi)
        s5 == RndAdvance(s4)
    IN  [glow |-> [cx |-> cx, cy |-> cy, radius |-> rad,
                   color |-> <<red, green, Blue>>],
         st |-> s5]

\* for i in range(3)
NumGlows == 3

\* card_margin = int(min(width, height) * 0.08)
CardMargin(w, h) == (Min(w, h) * 8) \div 100
\* font_size = max(18, int(min(width, height) * 0.04))
FontSize(w, h) == Max(18, (Min(w, h) * 4) \div 100)

\* the raster as a value: what was composed onto it
Raster(p, w, h, gs) ==
    [width |-> w, height |-> h, glows |-> gs,
     card_margin |-> CardMargin(w, h), font_size |-> FontSize(w, h),
     lines |-> wrap_text(p, MaxChars)]

(***************************************************************************)
(* POST /api/generate (src/main.py:24-38, 108-170, 173-190)                *)
(***************************************************************************)
\* bound: the number of requests in flight at once
NReq == 2
Reqs == 1..NReq

\* Field(..., min_length=2, max_length=280) of prompt
MinPromptLen == 2
MaxPromptLen == 280

\* a variant with exclusive lower bounds (gt for ge, a longer minimum)
ValidExclusive(b) ==
    /\ Len(b.prompt) > MinPromptLen /\ Len(b.prompt) <= MaxPromptLen
    /\ \A d \in {b.width, b.height} :
           d = None \/ (d[1] > MinDim /\ d[1] <= MaxDim)

\* GenerateRequest's field constraints; an omitted width or height is valid
\* (it takes the default), and seed is unconstrained
Valid(b) ==
    /\ Len(b.prompt) >= MinPromptLen /\ Len(b.prompt) <= MaxPromptLen
    /\ \A d \in {b.width, b.height} :
           d = None \/ (d[1] >= MinDim /\ d[1] <= MaxDim)

\* the validated model: defaults filled in
Parsed(b) ==
    [prompt |-> b.prompt,
     width  |-> IF b.width = None THEN DefaultDim ELSE b.width[1],
     height |-> IF b.height = None THEN DefaultDim ELSE b.height[1],
     seed   |-> b.seed]

\* int.from_bytes(bs, 'big') of four bytes
FromBytes(bs) ==
    [neg |-> FALSE, hi |-> bs[1] * 256 + bs[2], lo |-> bs[3] * 256 + bs[4]]

\* a variant that tests the seed's truth value: "req.seed or ..."
ResolveSeedTruthy(s, bs) == IF s # None /\ s[1] # PyInt(0) THEN s[1] ELSE FromBytes(bs)

\* seed = req.seed if req.seed is not None else int.from_bytes(os.urandom(4), 'big')
ResolveSeed(s, bs) == IF s # None THEN s[1] ELSE FromBytes(bs)

\* one generator shared by every call
SharedSlot(i) == 1

\* rnd = random.Random(seed) is a local of the call: call i owns generator i
RndSlot(i) == i

\* the length str(e)[:50] keeps in test_database
ErrLimit == 50

GenerationFailed ==
    <<"G","e","n","e","r","a","t","i","o","n"," ","f","a","i","l","e","d",":"," ">>

\* a variant that cuts the message as test_database does
FailureDetailCut(msg) == GenerationFailed \o Take(msg, ErrLimit)

\* detail=f"Generation failed: {str(e)}"
FailureDetail(msg) == GenerationFailed \o msg

NoRequest == [prompt |-> << >>, width |-> None, height |-> None, seed |-> None]
NoParsed  == [prompt |-> << >>, width |-> 0, height |-> 0, seed |-> None]

Reply(status, sd, detail, image) ==
    [status |-> status, seed |-> sd, detail |-> detail, image_base64 |-> image,
     mime_type |-> "image/png"]

\* base64.b64encode(PNG bytes).decode("utf-8") of a raster
EncodePng(raster) == <<[b64 |-> [png |-> raster]]>>

GenIdle ==
    /\ body = [i \in Reqs |-> NoRequest]
    /\ req = [i \in Reqs |-> NoParsed]
    /\ pc = [i \in Reqs |-> "idle"]
    /\ seed = [i \in Reqs |-> None]
    /\ rnd = [i \in Reqs |-> 0]
    /\ glows = [i \in Reqs |-> << >>]
    /\ img = [i \in Reqs |-> None]
    /\ exc = [i \in Reqs |-> None]
    /\ resp = [i \in Reqs |-> << >>]
    /\ synth_calls = [i \in Reqs |-> 0]

\* a request body arrives and is validated against GenerateRequest before
\* generate_image is entered; a violation is answered 422
Receive(i, b) ==
    /\ pc[i] = "idle"
    /\ body' = [body EXCEPT ![i] = b]
    /\ IF Valid(b)
       THEN /\ req' = [req EXCEPT ![i] = Parsed(b)]
            /\ pc' = [pc EXCEPT ![i] = "handler"]
            /\ resp' = resp
       ELSE /\ req' = req
            /\ pc' = [pc EXCEPT ![i] = "done"]
            /\ resp' = [resp EXCEPT ![i] = Append(@, Reply(422, None, << >>, None))]
    /\ UNCHANGED <<seed, rnd, glows, img, exc, synth_calls, wrapVars, glowVars, diagVars>>

\* line 176 and the entry of _generate_placeholder_image (lines 109-114):
\* the seed is resolved and the call creates its generator from it
EnterSynth(i, bs) ==
    /\ pc[i] = "handler"
    /\ LET sd == ResolveSeed(req[i].seed, bs)
       IN  /\ seed' = [seed EXCEPT ![i] = Some(sd)]
           /\ rnd' = [rnd EXCEPT ![RndSlot(i)] = SeedState(sd)]
    /\ synth_calls' = [synth_calls EXCEPT ![i] = @ + 1]
    /\ glows' = [glows EXCEPT ![i] = << >>]
    /\ pc' = [pc EXCEPT ![i] = "glows"]
    /\ UNCHANGED <<body, req, img, exc, resp, wrapVars, glowVars, diagVars>>

\* one iteration of "for i in range(3)" (lines 117-129)
DrawGlow(i) ==
    /\ pc[i] = "glows"
    /\ Len(glows[i]) < NumGlows
    /\ LET d == DrawGlowFrom(rnd[RndSlot(i)], req[i].width, req[i].height)
       IN  /\ glows' = [glows EXCEPT ![i] = Append(@, d.glow)]
           /\ rnd' = [rnd EXCEPT ![RndSlot(i)] = d.st]
    /\ UNCHANGED <<body, req, pc, seed, img, exc, resp, synth_calls, wrapVars, glowVars, diagVars>>

\* the card and the wrapped prompt (lines 131-170): the raster is complete
RenderText(i) ==
    /\ pc[i] = "glows"
    /\ Len(glows[i]) = NumGlows
    /\ img' = [img EXCEPT ![i] =
                  Some(Raster(req[i].prompt, req[i].width, req[i].height, glows[i]))]
    /\ pc' = [pc EXCEPT ![i] = "encode"]
    /\ UNCHANGED <<body, req, seed, rnd, glows, exc, resp, synth_calls, wrapVars, glowVars, diagVars>>

\* lines 178-188: PNG, base64 and the GenerateResponse
Encode(i) ==
    /\ pc[i] = "encode"
    /\ resp' = [resp EXCEPT ![i] =
                   Append(@, Reply(200, seed[i], << >>, EncodePng(img[i][1])))]
    /\ pc' = [pc EXCEPT ![i] = "done"]
    /\ UNCHANGED <<body, req, seed, rnd, glows, img, exc, synth_calls, wrapVars, glowVars, diagVars>>

\* lines 189-190: an exception raised inside the try block, during synthesis
\* or during encoding, is answered 500
Fail(i, msg) ==
    /\ pc[i] \in {"glows", "encode"}
    /\ exc' = [exc EXCEPT ![i] = Some(msg)]
    /\ resp' = [resp EXCEPT ![i] = Append(@, Reply(500, None, FailureDetail(msg), None))]
    /\ pc' = [pc EXCEPT ![i] = "done"]
    /\ UNCHANGED <<body, req, seed, rnd, glows, img, synth_calls, wrapVars, glowVars, diagVars>>

(***************************************************************************)
(* GET /test (src/main.py:51-93).  The status strings are written without  *)
(* their leading pictograms; database is the literal part of the string    *)
(* and, where the code formats one in, the cut exception message.          *)
(***************************************************************************)
\* collections[:10]
MaxShown == 10

NotAvailable   == "Not Available"
ModuleNotFound == "Database module not found (run enable-database first)"
ErrorStatus    == "Error: "
Uninitialized  == "Available but not initialized"
Working        == "Connected & Working"
ConnectedError == "Connected but Error: "

DbOpen(p) == p.import = "ok" /\ p.db = "handle" /\ p.name # "raises"

\* response["database"] when the function returns
Database(p) ==
    IF p.import = "ImportError" THEN [status |-> ModuleNotFound, err |-> << >>]
    ELSE IF p.import = "Exception" THEN [status |-> ErrorStatus, err |-> Take(p.msg, ErrLimit)]
    ELSE IF p.db = "None" THEN [status |-> Uninitialized, err |-> << >>]
    ELSE IF p.name = "raises" THEN [status |-> ErrorStatus, err |-> Take(p.msg, ErrLimit)]
    ELSE IF p.listing = "ok" THEN [status |-> Working, err |-> << >>]
    ELSE [status |-> ConnectedError, err |-> Take(p.msg, ErrLimit)]

\* a variant that shows every collection
ShownAll(cs) == cs

\* collections[:10]
Shown(cs) == Take(cs, MaxShown)

\* response["collections"]
Collections(p) ==
    IF DbOpen(p) /\ p.listing = "ok" THEN Shown(p.collections) ELSE << >>

\* "Set" / "Not Set" from os.getenv (lines 90-91)
EnvStatus(set) == IF set THEN "Set" ELSE "Not Set"

\* bound: the number of collections the database may hold
MaxColls == 12
\* bound: the length of the longest exception message
MaxMsgLen == 51

Messages == { Rep("e", n) : n \in {0, 3, ErrLimit, MaxMsgLen} }

Probes ==
    [import : {"ImportError", "Exception", "ok"},
     db : {"None", "handle"},
     name : {"absent", "ok", "raises"},
     listing : {"ok", "raises"},
     collections : { [k \in 1..n |-> k] : n \in 0..MaxColls },
     msg : {Rep("e", 3), Rep("e", MaxMsgLen)},
     url_set : BOOLEAN,
     name_set : BOOLEAN]

NoProbe ==
    [import |-> "ImportError", db |-> "None", name |-> "absent", listing |-> "ok",
     collections |-> << >>, msg |-> << >>, url_set |-> FALSE, name_set |-> FALSE]

NoResponse ==
    [backend |-> "Running", database |-> [status |-> NotAvailable, err |-> << >>],
     database_url |-> None, database_name |-> None,
     connection_status |-> "Not Connected", collections |-> << >>]

DiagIdle ==
    /\ probe = NoProbe
    /\ response = NoResponse
    /\ dpc = "idle"

InitDiag ==
    /\ probe \in Probes
    /\ response = NoResponse
    /\ dpc = "call"

\* test_database, whole: every except clause ends in a status string
TestDatabase ==
    /\ dpc = "call"
    /\ response' =
          [backend |-> "Running",
           database |-> Database(probe),
           database_url |-> Some(EnvStatus(probe.url_set)),
           database_name |-> Some(EnvStatus(probe.name_set)),
           connection_status |-> IF DbOpen(probe) THEN "Connected" ELSE "Not Connected",
           collections |-> Collections(probe)]
    /\ dpc' = "done"
    /\ UNCHANGED <<probe, wrapVars, glowVars, genVars>>

(***************************************************************************)
(* Specifications                                                          *)
(***************************************************************************)
ACat == <<"A", " ", "c", "a", "t">>

\* request bodies around every bound of GenerateRequest
Prompts ==
    { Rep("a", MinPromptLen - 2), Rep("a", MinPromptLen - 1), Rep("a", MinPromptLen),
      Rep(" ", MinPromptLen), ACat, Rep("a", MaxPromptLen), Rep("a", MaxPromptLen + 1) }
DimInputs == { None, Some(MinDim - 1), Some(MinDim), Some(MaxDim), Some(MaxDim + 1) }
SeedInputs == { None, Some(PyInt(0)), Some(PyInt(42)), Some(PyInt(MaxDim)), Some(PyInt(-42)) }
Bodies == [prompt : Prompts, width : DimInputs, height : DimInputs, seed : SeedInputs]

\* os.urandom(4)
ByteVals == {0, 1, 255}
FourBytes == [1..4 -> ByteVals]

\* one request at a time, over every body
Init == WrapIdle /\ GlowIdle /\ DiagIdle /\ GenIdle

Next ==
    \/ \E b \in Bodies : Receive(1, b)
    \/ \E bs \in FourBytes : EnterSynth(1, bs)
    \/ DrawGlow(1)
    \/ RenderText(1)
    \/ Encode(1)
    \/ \E msg \in Messages : Fail(1, msg)

Spec == Init /\ [][Next]_vars

\* NReq requests in flight, interleaved, over a few valid bodies
ConcBodies ==
    [prompt : {ACat}, width : {Some(MinDim)}, height : {Some(MinDim), Some(MaxDim)},
     seed : {Some(PyInt(42)), Some(PyInt(MaxDim))}]

NextConc ==
    \/ \E i \in Reqs, b \in ConcBodies : Receive(i, b)
    \/ \E i \in Reqs : EnterSynth(i, <<0, 0, 0, 0>>)
    \/ \E i \in Reqs : DrawGlow(i)
    \/ \E i \in Reqs : RenderText(i)
    \/ \E i \in Reqs : Encode(i)
    \/ \E i \in Reqs : Fail(i, Rep("e", 3))

SpecConc == Init /\ [][NextConc]_vars

InitWrapSpec == InitWrap /\ GlowIdle /\ DiagIdle /\ GenIdle
NextWrap == WrapCall
SpecWrap == InitWrapSpec /\ [][NextWrap]_vars

InitGlowSpec == WrapIdle /\ InitGlow /\ DiagIdle /\ GenIdle
NextGlow == RingStep \/ RingExit
SpecGlow == InitGlowSpec /\ [][NextGlow]_vars

InitDiagSpec == WrapIdle /\ GlowIdle /\ InitDiag /\ GenIdle
NextDiag == TestDatabase
SpecDiag == InitDiagSpec /\ [][NextDiag]_vars

(***************************************************************************)
(* Properties                                                              *)
(***************************************************************************)
RECURSIVE GlowsFrom(_, _, _, _)
\* the first n glows a call draws, alone, from generator state st
GlowsFrom(st, w, h, n) ==
    IF n = 0 THEN << >>
    ELSE LET d == DrawGlowFrom(st, w, h)
         IN  <<d.glow>> \o GlowsFrom(d.st, w, h, n - 1)

SameArgs(i, j) ==
    /\ seed[i] # None /\ seed[j] # None
    /\ req[i].prompt = req[j].prompt
    /\ req[i].width = req[j].width
    /\ req[i].height = req[j].height
    /\ seed[i] = seed[j]

\* C1: the synthesizer's output is a function of (prompt, width, height,
\* seed) alone.  Two calls with the same arguments draw the same glows in the
\* same order (at any moment one has drawn a prefix of the other's) and end
\* with the same raster, and every call draws what a call running alone
\* would draw from its seed, whatever the other calls in flight do.
C1_Deterministic ==
    /\ \A i, j \in Reqs :
          SameArgs(i, j) =>
             /\ IsPrefix(glows[i], glows[j]) \/ IsPrefix(glows[j], glows[i])
             /\ (img[i] # None /\ img[j] # None => img[i] = img[j])
    /\ \A i \in Reqs :
          seed[i] # None =>
             /\ glows[i] = GlowsFrom(SeedState(seed[i][1]), req[i].width,
                                     req[i].height, Len(glows[i]))
             /\ (img[i] # None =>
                    img[i][1] = Raster(req[i].prompt, req[i].width, req[i].height,
                                       GlowsFrom(SeedState(seed[i][1]), req[i].width,
                                                 req[i].height, NumGlows)))

\* two calls with the same arguments have both completed their raster
C1_Witness ==
    \E i, j \in Reqs : i # j /\ SameArgs(i, j) /\ img[i] # None /\ img[j] # None

OutOfRange(b) ==
    \/ Len(b.prompt) < 2 \/ Len(b.prompt) > 280
    \/ \E d \in {b.width, b.height} : d # None /\ (d[1] < 256 \/ d[1] > 1024)

AtBoundary(b) ==
    /\ Len(b.prompt) \in {2, 280}
    /\ \A d \in {b.width, b.height} : d # None /\ d[1] \in {256, 1024}

\* C2: a request whose width or height is outside [256, 1024] or whose prompt
\* length is outside [2, 280] gets the single answer 422 and the synthesizer
\* is never invoked for it; a request with prompt length 2 or 280 and width
\* and height 256 or 1024 is not answered 422 and, once the handler has run
\* its first line, has invoked the synthesizer.
C2_Validation ==
    \A i \in Reqs :
       pc[i] # "idle" =>
          /\ OutOfRange(body[i]) =>
                /\ pc[i] = "done"
                /\ Len(resp[i]) = 1 /\ resp[i][1].status = 422
                /\ synth_calls[i] = 0
          /\ AtBoundary(body[i]) =>
                /\ \A k \in 1..Len(resp[i]) : resp[i][k].status # 422
                /\ (pc[i] # "handler" => synth_calls[i] = 1)

\* a request at the upper bounds has reached synthesis
C2_Witness ==
    /\ AtBoundary(body[1])
    /\ Len(body[1].prompt) = 280 /\ body[1].width = Some(1024)
    /\ synth_calls[1] = 1

IsU32(x) == ~x.neg /\ x.hi \in 0..(Limb - 1) /\ x.lo \in 0..(Limb - 1)

\* C3: every 200 response carries a seed that is not null; it is the
\* request's seed when the request gave one (0 included), otherwise an
\* integer in [0, 2^32 - 1]; and it is the value the synthesizer was called
\* with, the one the raster's glows were drawn from.
C3_Seed ==
    \A i \in Reqs : \A k \in 1..Len(resp[i]) :
       resp[i][k].status = 200 =>
          /\ resp[i][k].seed # None
          /\ (body[i].seed # None => resp[i][k].seed = body[i].seed)
          /\ (body[i].seed = None => IsU32(resp[i][k].seed[1]))
          /\ resp[i][k].seed = seed[i]
          /\ img[i] # None
          /\ img[i][1].glows = GlowsFrom(SeedState(resp[i][k].seed[1]), req[i].width,
                                         req[i].height, NumGlows)

\* a request that supplied the seed 0 has been answered 200
C3_Witness ==
    /\ body[1].seed = Some(PyInt(0))
    /\ Len(resp[1]) = 1 /\ resp[1][1].status = 200

\* C6 as claimed: a failed request ends with one 500 response whose detail is
\* "Generation failed: " followed by the exception message cut short (at the
\* 50 characters the diagnostics endpoint keeps), with no second synthesis
\* and no success response.
C6_TruncatedDetail ==
    \A i \in Reqs :
       exc[i] # None =>
          /\ Len(resp[i]) = 1
          /\ resp[i][1].status = 500
          /\ resp[i][1].detail = GenerationFailed \o Take(exc[i][1], ErrLimit)
          /\ synth_calls[i] = 1

\* C6, amended: a failed request ends with exactly one response, a 500 whose
\* detail is "Generation failed: " followed by the whole exception message;
\* the synthesizer was invoked once and no success response was produced.
C6_FailureReply ==
    \A i \in Reqs :
       exc[i] # None =>
          /\ pc[i] = "done"
          /\ Len(resp[i]) = 1
          /\ resp[i][1].status = 500
          /\ resp[i][1].detail = GenerationFailed \o exc[i][1]
          /\ synth_calls[i] = 1

\* a request failed with a message longer than 50 characters
C6_Witness ==
    /\ exc[1] # None /\ Len(exc[1][1]) > ErrLimit
    /\ Len(resp[1]) = 1 /\ resp[1][1].status = 500

\* C8 as claimed: every glow center lies in [0, width) x [0, height), and a
\* finished raster has exactly 3 glows.
C8_HalfOpenCenters ==
    \A i \in Reqs :
       /\ \A k \in 1..Len(glows[i]) :
             /\ 0 <= glows[i][k].cx /\ glows[i][k].cx <= req[i].width - 1
             /\ 0 <= glows[i][k].cy /\ glows[i][k].cy <= req[i].height - 1
       /\ (img[i] # None => Len(img[i][1].glows) = 3)

\* C8, amended: the synthesizer draws exactly 3 glows and each center lies in
\* the closed range [0, width] x [0, height].
C8_ClosedCenters ==
    \A i \in Reqs :
       /\ Len(glows[i]) <= 3
       /\ \A k \in 1..Len(glows[i]) :
             /\ 0 <= glows[i][k].cx /\ glows[i][k].cx <= req[i].width
             /\ 0 <= glows[i][k].cy /\ glows[i][k].cy <= req[i].height
       /\ (img[i] # None => Len(img[i][1].glows) = 3)

\* a finished raster has a glow centered at x = width
C8_Witness ==
    /\ img[1] # None
    /\ \E k \in 1..Len(glows[1]) : glows[1][k].cx = req[1].width

\* C9 as claimed: the rings of a glow's mask are drawn at even r only, at
\* stride 2 within (0, radius], and the loop ends.
C9_EvenSteps ==
    gpc # "idle" =>
       /\ \A k \in 1..Len(rings) :
             /\ rings[k].r % 2 = 0
             /\ 0 < rings[k].r /\ rings[k].r <= radius
             /\ (k > 1 => rings[k - 1].r - rings[k].r = 2)
       /\ r = radius - 2 * Len(rings) /\ r >= -1

\* C9, amended: the rings are drawn at r = radius, radius - 2, ...: every r
\* has the parity of radius (even only when radius is even), at stride 2
\* within (0, radius]; r falls by 2 with every ring and never below -1, so
\* the loop ends, after (radius + 1) div 2 rings.
C9_RadiusParitySteps ==
    gpc # "idle" =>
       /\ \A k \in 1..Len(rings) :
             /\ rings[k].r = radius - 2 * (k - 1)
             /\ rings[k].r % 2 = radius % 2
             /\ 0 < rings[k].r /\ rings[k].r <= radius
       /\ r = radius - 2 * Len(rings) /\ r >= -1
       /\ (gpc = "done" => Len(rings) = (radius + 1) \div 2)

\* the loop has ended for an odd radius
C9_Witness == gpc = "done" /\ radius % 2 = 1 /\ Len(rings) > 1

StatusKind(st) ==
    IF st \in {NotAvailable, ModuleNotFound, ErrorStatus} THEN "not available"
    ELSE IF st = Uninitialized THEN "available-but-uninitialized"
    ELSE IF st = Working THEN "connected"
    ELSE IF st = ConnectedError THEN "connected-with-error"
    ELSE "other"

\* C7: test_database answers every probe outcome (it is always able to
\* return).  The database field is one of not available, available but
\* uninitialized, connected, connected with error, following the outcome;
\* an error text is at most 50 characters; collections holds at most 10
\* entries, the first ones listed, and is empty unless listing succeeded;
\* with no database module the field says "not found" and collections is
\* empty.
C7_Diagnostics ==
    /\ dpc = "call" => ENABLED TestDatabase
    /\ dpc = "done" =>
          LET st == response.database.status
              listed == DbOpen(probe) /\ probe.listing = "ok"
          IN  /\ StatusKind(st) \in {"not available", "available-but-uninitialized",
                                     "connected", "connected-with-error"}
              /\ Len(response.database.err) <= 50
              /\ Len(response.collections) <= 10
              /\ (response.collections # << >> => listed)
              /\ (listed => /\ StatusKind(st) = "connected"
                            /\ IsPrefix(response.collections, probe.collections)
                            /\ Len(response.collections) = Min(10, Len(probe.collections)))
              /\ (probe.import = "ImportError" =>
                     st = ModuleNotFound /\ response.collections = << >>)
              /\ (probe.import = "Exception" => StatusKind(st) = "not available")
              /\ (probe.import = "ok" /\ probe.db = "None" =>
                     StatusKind(st) = "available-but-uninitialized")
              /\ (DbOpen(probe) /\ probe.listing = "raises" =>
                     StatusKind(st) = "connected-with-error")

\* a listing of more than 10 collections has been answered
C7_Witness ==
    /\ dpc = "done"
    /\ Len(probe.collections) > 10
    /\ Len(response.collections) = 10

RECURSIVE GreedyLines(_, _)
\* greedy packing: each line takes the longest run of the remaining words
\* that fits in mc characters when joined by single blanks, and at least one
GreedyLines(words, mc) ==
    IF words = << >> THEN << >>
    ELSE LET n == CHOOSE k \in 1..Len(words) :
                     /\ k = 1 \/ Len(Join(SubSeq(words, 1, k))) <= mc
                     /\ k = Len(words) \/ Len(Join(SubSeq(words, 1, k + 1))) > mc
         IN  <<Join(SubSeq(words, 1, n))>>
                \o GreedyLines(SubSeq(words, n + 1, Len(words)), mc)

\* C4: wrap_text returns the first min(6, n) of the n lines of the greedy
\* packing of the text's words, in order: never more than 6 lines, and the
\* empty sequence for a text without words.
C4_FirstSixGreedyLines ==
    wpc = "done" =>
       /\ wrapped = Take(GreedyLines(Split(text), max_chars), 6)
       /\ Len(wrapped) <= 6
       /\ (Split(text) = << >> => wrapped = << >>)

RECURSIVE WordsOf(_)
\* the words of a sequence of lines, in order
WordsOf(lines) ==
    IF lines = << >> THEN << >> ELSE Split(Head(lines)) \o WordsOf(Tail(lines))

\* C5: lines are filled greedily, counting the blanks between words: every
\* returned line is its words joined by single blanks and is at most
\* max_chars long or a single word; a line ends only where the next word
\* would not fit (the line joined with the first word of the next line
\* exceeds max_chars); and the words of the returned lines, in order, are a
\* prefix of the text's words.
C5_GreedyFill ==
    wpc = "done" =>
       LET ws == [k \in 1..Len(wrapped) |-> Split(wrapped[k])]
       IN  /\ \A k \in 1..Len(wrapped) :
                 /\ wrapped[k] = Join(ws[k])
                 /\ Len(wrapped[k]) <= max_chars \/ Len(ws[k]) = 1
           /\ \A k \in 1..(Len(wrapped) - 1) :
                 Len(Join(Append(ws[k], Head(ws[k + 1])))) > max_chars
           /\ IsPrefix(WordsOf(wrapped), Split(text))

\* several lines were returned, one of them of several words and exactly
\* max_chars long
C5_Witness ==
    /\ wpc = "done"
    /\ Len(wrapped) > 1
    /\ \E k \in 1..Len(wrapped) :
          Len(wrapped[k]) = max_chars /\ Len(Split(wrapped[k])) > 1

\* C10: no line returned by wrap_text is the empty string.
C10_NoEmptyLine ==
    wpc = "done" => \A k \in 1..Len(wrapped) : wrapped[k] # << >>

====
